---- MODULE Spec2Model ----
(***************************************************************************)
(* A model of DBProxy.py: the five Database variants (SQLite, PostgreSQL,  *)
(* MySQL, MongoDB, Redis) and the DBProxy router that holds one of them.   *)
(*                                                                         *)
(* Strings that the code inspects (the backend type name, the query text)  *)
(* are tuples of one-character strings, so that lower() and startswith()   *)
(* are computed and not assumed.  The stores behind the drivers are kept   *)
(* small: one table / collection / key per variant instance, holding       *)
(* values of Vals.                                                         *)
(***************************************************************************)
EXTENDS Integers, Sequences, FiniteSets, TLC

(* ------------------------------ bounds -------------------------------- *)
MaxInst  == 2      \* variant instances constructed in one run of Spec
MaxRows  == 2      \* rows / documents a store holds
MaxStmts == 2      \* statements of one transaction, rows of one batch

Proxies == {"A", "B"}
Vals    == {1, 2}

(* ------------------------------ strings ------------------------------- *)
Lowers == <<"a","b","c","d","e","f","g","h","i","j","k","l","m",
            "n","o","p","q","r","s","t","u","v","w","x","y","z">>
Uppers == <<"A","B","C","D","E","F","G","H","I","J","K","L","M",
            "N","O","P","Q","R","S","T","U","V","W","X","Y","Z">>

Digits == <<"1","2","3","4","5","6","7","8","9">>
Alphabet == {Lowers[i] : i \in DOMAIN Lowers} \cup {Uppers[i] : i \in DOMAIN Uppers}
            \cup {Digits[i] : i \in DOMAIN Digits} \cup {" "}

LowerChar ==
    [c \in Alphabet |->
        IF \E i \in DOMAIN Uppers : Uppers[i] = c
        THEN Lowers[CHOOSE i \in DOMAIN Uppers : Uppers[i] = c]
        ELSE c]

UpperChar ==
    [c \in Alphabet |->
        IF \E i \in DOMAIN Lowers : Lowers[i] = c
        THEN Uppers[CHOOSE i \in DOMAIN Lowers : Lowers[i] = c]
        ELSE c]

\* str.lower()
Lower(s) == [i \in DOMAIN s |-> LowerChar[s[i]]]

\* str.startswith(prefix)
StartsWith(s, p) == Len(s) >= Len(p) /\ SubSeq(s, 1, Len(p)) = p

S_sqlite     == <<"s","q","l","i","t","e">>
S_postgresql == <<"p","o","s","t","g","r","e","s","q","l">>
S_mysql      == <<"m","y","s","q","l">>
S_mongodb    == <<"m","o","n","g","o","d","b">>
S_redis      == <<"r","e","d","i","s">>

Kinds == {"sqlite", "postgresql", "mysql", "mongodb", "redis"}
Relational == {"sqlite", "postgresql", "mysql"}

\* the identifier the code compares the lowered name with, per variant
Ident(k) ==
    CASE k = "sqlite"     -> S_sqlite
      [] k = "postgresql" -> S_postgresql
      [] k = "mysql"      -> S_mysql
      [] k = "mongodb"    -> S_mongodb
      [] k = "redis"      -> S_redis

\* the if/elif chain of connect_to_db on the lowered name; "" is the else branch
ResolveWrongCase(name) ==
    IF \E k \in Kinds : name = Ident(k)
    THEN CHOOSE k \in Kinds : name = Ident(k)
    ELSE ""

Resolve(name) ==
    LET t == Lower(name) IN
    IF t = S_sqlite THEN "sqlite"
    ELSE IF t = S_postgresql THEN "postgresql"
    ELSE IF t = S_mysql THEN "mysql"
    ELSE IF t = S_mongodb THEN "mongodb"
    ELSE IF t = S_redis THEN "redis"
    ELSE ""

(* spellings of a name: which positions are upper case *)
Masks == {"none", "all", "odd", "first", "last"}
Mix(s, m) ==
    [i \in DOMAIN s |->
        IF \/ m = "all"
           \/ m = "odd" /\ i % 2 = 1
           \/ m = "first" /\ i = 1
           \/ m = "last" /\ i = Len(s)
        THEN UpperChar[s[i]] ELSE s[i]]

GoodNames == {Mix(Ident(k), m) : k \in Kinds, m \in Masks}
BadNames  == { <<>>,
               <<"s","q","l">>,
               <<"s","q","l","i","t","e","3">>,
               <<"S","Q","L","I","T","E"," ">>,
               <<"m","o","n","g","o">>,
               <<"P","o","s","t","g","r","e","s">>,
               <<"o","r","a","c","l","e">> }
TypeNames == GoodNames \cup BadNames
ResolveOf == [name \in TypeNames |-> Resolve(name)]

(* ------------------------------ queries ------------------------------- *)
\* query texts: SQL for the relational engines, verbs for MongoDB and Redis
Q_insert(v) == <<"I","N","S","E","R","T"," ",Digits[v]>>
Q_select == <<"S","E","L","E","C","T">>
Q_bogus  == <<"B","O","G","U","S">>
T_insert == <<"i","n","s","e","r","t">>
T_find   == <<"f","i","n","d">>
T_update == <<"u","p","d","a","t","e">>
T_delete == <<"d","e","l","e","t","e">>
T_set    == <<"s","e","t">>
T_get    == <<"g","e","t">>

\* what the SQL engine makes of a text (keywords are case-insensitive)
SqlParse(q) ==
    IF \E v \in Vals : Lower(q) = Lower(Q_insert(v))
    THEN [k |-> "insert", v |-> CHOOSE v \in Vals : Lower(q) = Lower(Q_insert(v))]
    ELSE IF Lower(q) = Lower(Q_select) THEN [k |-> "select", v |-> 0]
    ELSE [k |-> "bad", v |-> 0]

Queries ==
    {Q_insert(v) : v \in Vals} \cup
    {Q_select, Q_bogus, Lower(Q_insert(1)),
     T_insert, T_find, T_update, T_delete, T_set, T_get,
     T_set \o <<"t","l","e">>, Mix(T_find, "first")}
SqlOf == [q \in Queries |-> SqlParse(q)]

\* params of execute_query: None, or a mapping read with .get();
\* f is the filter (0: the empty filter), v the data / value / update
QueryParams(k) ==
    {[isNone |-> TRUE, f |-> 0, v |-> 1], [isNone |-> FALSE, f |-> 0, v |-> 1]} \cup
    IF k \in Relational THEN {}
    ELSE {[isNone |-> FALSE, f |-> x, v |-> y] : x \in Vals, y \in {1}}

RECURSIVE SeqsUpTo(_, _)
SeqsUpTo(S, n) ==
    IF n = 0 THEN {<<>>}
    ELSE LET R == SeqsUpTo(S, n - 1) IN
         R \cup {Append(r, x) : r \in {q \in R : Len(q) = n - 1}, x \in S}

TxStmts == {Q_insert(v) : v \in Vals} \cup {Q_bogus}

SpecialOps == {"transaction", "batch_insert", "aggregate",
               "subscribe", "publish", "Transaction", "vacuum"}

NoParams == [isNone |-> TRUE, queries |-> <<>>, values |-> <<>>, f |-> 0, v |-> 1]

\* params of execute_special, per operation name: the keys that operation reads
ParamsFor(op) ==
    {NoParams} \cup
    (CASE op = "transaction" ->
            {[NoParams EXCEPT !.isNone = FALSE, !.queries = q] :
                q \in SeqsUpTo(TxStmts, MaxStmts)}
       [] op = "batch_insert" ->
            {[NoParams EXCEPT !.isNone = FALSE, !.values = r] :
                r \in SeqsUpTo(Vals, MaxStmts)}
       [] op = "aggregate" ->
            {[NoParams EXCEPT !.isNone = FALSE, !.f = f] : f \in {0} \cup Vals}
       [] op = "publish" ->
            {[NoParams EXCEPT !.isNone = FALSE, !.v = v] : v \in Vals}
       [] OTHER -> {[NoParams EXCEPT !.isNone = FALSE]})

(* --------------------------- variant instances ------------------------ *)
(* conn:       "None" (self.conn is None), "open", "closed" (the handle     *)
(*             self.conn refers to, after its close())                      *)
(* committed:  what the store holds durably                                 *)
(* work:       what the session sees: committed plus its uncommitted work   *)
(* aborted:    PostgreSQL: the session's transaction is in the failed state *)
(* cursors:    cursors of the handle that are open                          *)
(* subscribed: Redis: the pubsub object is subscribed to the channel        *)
NewInst(k) ==
    [kind |-> k, conn |-> "None", committed |-> <<>>, work |-> <<>>,
     aborted |-> FALSE, cursors |-> 0, subscribed |-> FALSE]

Out(s, e, r) == [st |-> s, err |-> e, ret |-> r, hclose |-> FALSE]

NoErr == ""
E_Attribute   == "AttributeError"
E_Type        == "TypeError"
E_Index       == "IndexError"
E_Driver      == "DriverError"
E_Unsupported == "ValueError: Unsupported operation"
E_UnknownType == "ValueError: Unsupported database type"
E_NoDatabase  == "Exception: No database connected"

\* connect(): a new handle replaces self.conn when the driver's connect returns
ConnectOutcomes(k) == IF k = "redis" THEN {TRUE} ELSE {TRUE, FALSE}

VConnect(s, ok) ==
    IF ok
    THEN Out([s EXCEPT !.conn = "open", !.work = s.committed, !.aborted = FALSE,
                       !.cursors = 0, !.subscribed = FALSE], NoErr, <<>>)
    ELSE Out(s, E_Driver, <<>>)

\* the driver's close() on a handle that is already closed
HandleRecloseErr(k) == IF k = "mysql" THEN E_Driver ELSE NoErr

\* close(): `if self.conn: self.conn.close()`; self.conn is not reset
VClose(s) ==
    IF s.conn = "None" THEN Out(s, NoErr, <<>>)
    ELSE IF s.conn = "open"
    THEN [Out([s EXCEPT !.conn = "closed", !.work = s.committed, !.aborted = FALSE,
                        !.cursors = 0, !.subscribed = FALSE], NoErr, <<>>)
            EXCEPT !.hclose = TRUE]
    ELSE [Out(s, HandleRecloseErr(s.kind), <<>>) EXCEPT !.hclose = TRUE]

(* ------------------------ relational variants ------------------------- *)
\* `cursor = self.conn.cursor()` and the `finally: cursor.close()`
CursorOpen(s)  == [s EXCEPT !.cursors = @ + 1]
CursorCloseSkipped(s) == s
CursorClose(s) == [s EXCEPT !.cursors = @ - 1]

\* cursor.execute(query): one statement on the session; no commit.  A
\* statement PostgreSQL rejects puts the transaction in the failed state:
\* nothing it did can be seen or committed any more, and every statement is
\* rejected until the transaction ends.  SQLite and MySQL keep the work of
\* the statements before the rejected one in the open transaction.
RelExec(s, q) ==
    LET stmt == SqlOf[q] IN
    IF s.aborted \/ stmt.k = "bad"
    THEN [st |-> IF s.kind = "postgresql"
                 THEN [s EXCEPT !.aborted = TRUE, !.work = s.committed]
                 ELSE s,
          ok |-> FALSE, rows |-> <<>>]
    ELSE IF stmt.k = "insert"
    THEN [st |-> [s EXCEPT !.work = Append(@, stmt.v)], ok |-> TRUE, rows |-> <<>>]
    ELSE [st |-> s, ok |-> TRUE, rows |-> s.work]

\* conn.commit(); nd.cok: the engine accepts the commit; nd.rb: a refused
\* commit has rolled the session back.  PostgreSQL answers a commit of a
\* failed transaction with a rollback.
CommitSkipped(s, nd) == [st |-> s, ok |-> TRUE]
Commit(s, nd) ==
    IF ~nd.cok
    THEN [st |-> IF nd.rb THEN [s EXCEPT !.work = s.committed, !.aborted = FALSE] ELSE s,
          ok |-> FALSE]
    ELSE IF s.aborted
    THEN [st |-> [s EXCEPT !.work = s.committed, !.aborted = FALSE], ok |-> TRUE]
    ELSE [st |-> [s EXCEPT !.committed = s.work], ok |-> TRUE]

\* execute_query of SQLiteDatabase / PostgreSQLDatabase / MySQLDatabase
RelQuery(s, q, nd) ==
    IF s.conn = "None" THEN Out(s, E_Attribute, <<>>)
    ELSE IF s.conn = "closed" THEN Out(s, E_Driver, <<>>)
    ELSE LET x == RelExec(CursorOpen(s), q) IN
         IF ~x.ok THEN Out(CursorClose(x.st), E_Driver, <<>>)
         ELSE LET c == Commit(x.st, nd) IN
              IF ~c.ok THEN Out(CursorClose(c.st), E_Driver, <<>>)
              ELSE Out(CursorClose(c.st), NoErr, x.rows)

\* `for query, q_params in queries: cursor.execute(...)`: stops at the first
\* statement the engine rejects
RECURSIVE RunAll(_, _)
RunAll(s, qs) ==
    IF qs = <<>> THEN [st |-> s, ok |-> TRUE]
    ELSE LET x == RelExec(s, Head(qs)) IN
         IF x.ok THEN RunAll(x.st, Tail(qs)) ELSE [st |-> x.st, ok |-> FALSE]

\* an insert of the first row only: cursor.execute(query, values[0])
ExecManyFirstOnly(s, values) ==
    IF s.aborted
    THEN [st |-> s, ok |-> FALSE]
    ELSE [st |-> [s EXCEPT !.work = Append(@, Head(values))], ok |-> TRUE]

\* cursor.executemany(INSERT ..., values)
ExecMany(s, values) ==
    IF s.aborted
    THEN [st |-> s, ok |-> FALSE]
    ELSE [st |-> [s EXCEPT !.work = @ \o values], ok |-> TRUE]

\* execute_special on a closed handle.  sqlite3 and psycopg2 refuse
\* conn.cursor(); pymysql hands out a cursor and refuses what is sent
\* through it, so the code before the first driver call still runs.
ClosedSpecial(s, op, P) ==
    IF s.kind # "mysql" THEN Out(s, E_Driver, <<>>)
    ELSE IF op \notin {"transaction", "batch_insert"} THEN Out(s, E_Unsupported, <<>>)
    ELSE IF P.isNone THEN Out(s, E_Attribute, <<>>)
    ELSE IF op = "batch_insert" /\ P.values = <<>> THEN Out(s, E_Index, <<>>)
    ELSE Out(s, E_Driver, <<>>)

\* execute_special of the three relational variants
RelSpecial(s, op, P, nd) ==
    IF s.conn = "None" THEN Out(s, E_Attribute, <<>>)
    ELSE IF s.conn = "closed" THEN ClosedSpecial(s, op, P)
    ELSE LET s1 == CursorOpen(s) IN
         IF op = "transaction"
         THEN IF P.isNone THEN Out(CursorClose(s1), E_Attribute, <<>>)
              ELSE LET x == RunAll(s1, P.queries) IN
                   IF ~x.ok THEN Out(CursorClose(x.st), E_Driver, <<>>)
                   ELSE LET c == Commit(x.st, nd) IN
                        IF ~c.ok THEN Out(CursorClose(c.st), E_Driver, <<>>)
                        ELSE Out(CursorClose(c.st), NoErr, <<"Transaction committed">>)
         ELSE IF op = "batch_insert"
         THEN IF P.isNone THEN Out(CursorClose(s1), E_Attribute, <<>>)
              ELSE IF P.values = <<>> THEN Out(CursorClose(s1), E_Index, <<>>)
              ELSE LET x == ExecMany(s1, P.values) IN
                   IF ~x.ok THEN Out(CursorClose(x.st), E_Driver, <<>>)
                   ELSE LET c == Commit(x.st, nd) IN
                        IF ~c.ok THEN Out(CursorClose(c.st), E_Driver, <<>>)
                        ELSE Out(CursorClose(c.st), NoErr, <<Len(P.values)>>)
         ELSE Out(CursorClose(s1), E_Unsupported, <<>>)

(* ------------------------------ MongoDB ------------------------------- *)
Matches(f, d) == f = 0 \/ f = d
Matching(docs, f) == SelectSeq(docs, LAMBDA d : Matches(f, d))
NotMatching(docs, f) == SelectSeq(docs, LAMBDA d : ~Matches(f, d))
Store(s, docs) == [s EXCEPT !.work = docs, !.committed = docs]
Ids(from, n) == [i \in 1..n |-> from + i]

\* the driver serves an operation on an open client; on a closed one it
\* either reconnects (nd.alive) or refuses
Served(s, nd) == s.conn = "open" \/ nd.alive

\* MongoDBDatabase.execute_query
MongoQuery(s, q, P, nd) ==
    IF s.conn = "None" THEN Out(s, E_Type, <<>>)
    ELSE IF ~\E t \in {T_insert, T_find, T_update, T_delete} : StartsWith(q, t)
    THEN Out(s, E_Unsupported, <<>>)
    ELSE IF P.isNone THEN Out(s, E_Attribute, <<>>)
    ELSE IF ~Served(s, nd) THEN Out(s, E_Driver, <<>>)
    ELSE IF StartsWith(q, T_insert)
    THEN Out(Store(s, Append(s.work, P.v)), NoErr, Ids(Len(s.work), 1))
    ELSE IF StartsWith(q, T_find)
    THEN Out(s, NoErr, Matching(s.work, P.f))
    ELSE IF StartsWith(q, T_update)
    THEN Out(Store(s, [i \in DOMAIN s.work |->
                          IF Matches(P.f, s.work[i]) THEN P.v ELSE s.work[i]]),
             NoErr,
             <<Len(SelectSeq(s.work, LAMBDA d : Matches(P.f, d) /\ d # P.v))>>)
    ELSE Out(Store(s, NotMatching(s.work, P.f)), NoErr,
             <<Len(Matching(s.work, P.f))>>)

\* MongoDBDatabase.execute_special
MongoSpecial(s, op, P, nd) ==
    IF s.conn = "None" THEN Out(s, E_Type, <<>>)
    ELSE IF op \notin {"aggregate", "batch_insert"} THEN Out(s, E_Unsupported, <<>>)
    ELSE IF P.isNone THEN Out(s, E_Attribute, <<>>)
    ELSE IF op = "batch_insert" /\ P.values = <<>> THEN Out(s, E_Type, <<>>)
    ELSE IF ~Served(s, nd) THEN Out(s, E_Driver, <<>>)
    ELSE IF op = "aggregate" THEN Out(s, NoErr, Matching(s.work, P.f))
    ELSE Out(Store(s, s.work \o P.values), NoErr, Ids(Len(s.work), Len(P.values)))

(* ------------------------------- Redis -------------------------------- *)
\* execute_query that returned `self.conn.get(key)` without the brackets
RedisQueryUnwrapped(s, q, P, nd) ==
    IF ~\E t \in {T_set, T_get, T_delete} : StartsWith(q, t)
    THEN Out(s, E_Unsupported, <<>>)
    ELSE IF P.isNone \/ s.conn = "None" THEN Out(s, E_Attribute, <<>>)
    ELSE IF ~Served(s, nd) THEN Out(s, E_Driver, <<>>)
    ELSE IF StartsWith(q, T_set) THEN Out(Store(s, <<P.v>>), NoErr, <<"OK">>)
    ELSE IF StartsWith(q, T_get) THEN Out(s, NoErr, s.work)
    ELSE Out(Store(s, <<>>), NoErr, <<Len(s.work)>>)

\* RedisDatabase.execute_query; the store is one key: <<>> unset, <<v>> set;
\* `[self.conn.get(key)]` of an unset key is [None], here <<0>>
RedisQuery(s, q, P, nd) ==
    IF ~\E t \in {T_set, T_get, T_delete} : StartsWith(q, t)
    THEN Out(s, E_Unsupported, <<>>)
    ELSE IF P.isNone \/ s.conn = "None" THEN Out(s, E_Attribute, <<>>)
    ELSE IF ~Served(s, nd) THEN Out(s, E_Driver, <<>>)
    ELSE IF StartsWith(q, T_set) THEN Out(Store(s, <<P.v>>), NoErr, <<"OK">>)
    ELSE IF StartsWith(q, T_get)
    THEN Out(s, NoErr, IF s.work = <<>> THEN <<0>> ELSE s.work)
    ELSE Out(Store(s, <<>>), NoErr, <<Len(s.work)>>)

\* RedisDatabase.execute_special
RedisSpecial(s, op, P, nd) ==
    IF op \notin {"subscribe", "publish"} THEN Out(s, E_Unsupported, <<>>)
    ELSE IF P.isNone \/ s.conn = "None" THEN Out(s, E_Attribute, <<>>)
    ELSE IF ~Served(s, nd) THEN Out(s, E_Driver, <<>>)
    ELSE IF op = "subscribe"
    THEN Out([s EXCEPT !.subscribed = TRUE], NoErr, <<"Subscribed to channel">>)
    ELSE Out(s, NoErr, <<IF s.subscribed THEN 1 ELSE 0>>)

(* ------------------------- the Database interface --------------------- *)
\* what the driver may answer, for the state the handle is in
Drivers(s) ==
    IF s.kind \in Relational
    THEN IF s.conn = "open"
         THEN {[cok |-> TRUE, rb |-> FALSE, alive |-> TRUE],
               [cok |-> FALSE, rb |-> FALSE, alive |-> TRUE],
               [cok |-> FALSE, rb |-> TRUE, alive |-> TRUE]}
         ELSE {[cok |-> TRUE, rb |-> FALSE, alive |-> TRUE]}
    ELSE IF s.conn = "closed"
    THEN {[cok |-> TRUE, rb |-> FALSE, alive |-> TRUE],
          [cok |-> TRUE, rb |-> FALSE, alive |-> FALSE]}
    ELSE {[cok |-> TRUE, rb |-> FALSE, alive |-> TRUE]}

VQuery(s, q, P, nd) ==
    IF s.kind \in Relational THEN RelQuery(s, q, nd)
    ELSE IF s.kind = "mongodb" THEN MongoQuery(s, q, P, nd)
    ELSE RedisQuery(s, q, P, nd)

\* the operation name as a variant that ignored its case would read it
LooseOp(op) == IF op = "Transaction" THEN "transaction" ELSE op
VSpecialLoose(s, op, P, nd) ==
    IF s.kind \in Relational THEN RelSpecial(s, LooseOp(op), P, nd)
    ELSE IF s.kind = "mongodb" THEN MongoSpecial(s, LooseOp(op), P, nd)
    ELSE RedisSpecial(s, LooseOp(op), P, nd)

VSpecial(s, op, P, nd) ==
    IF s.kind \in Relational THEN RelSpecial(s, op, P, nd)
    ELSE IF s.kind = "mongodb" THEN MongoSpecial(s, op, P, nd)
    ELSE RedisSpecial(s, op, P, nd)

(* ------------------------------- state -------------------------------- *)
VARIABLES
    db,      \* db[p]: DBProxy.db of proxy p: 0 (None) or the index of a variant
    inst,    \* the variant instances constructed so far
    last     \* the call that just returned: what was asked and what came back

vars == <<db, inst, last>>

NoCall ==
    [op |-> "", via |-> "", target |-> 0, err |-> NoErr, ret |-> <<>>,
     hclose |-> FALSE, name |-> <<>>, q |-> <<>>, opname |-> "",
     cls |-> "", pNone |-> FALSE, vals |-> <<>>, n |-> 0, k |-> 0]

\* the position of the first statement of qs the session s rejects (0: none)
RECURSIVE FirstFailure(_, _, _)
FirstFailure(s, qs, i) ==
    IF i > Len(qs) THEN 0
    ELSE LET x == RelExec(s, qs[i]) IN
         IF x.ok THEN FirstFailure(x.st, qs, i + 1) ELSE i

Call(op, via, i, out) ==
    [NoCall EXCEPT !.op = op, !.via = via, !.target = i, !.err = out.err,
                   !.ret = out.ret, !.hclose = out.hclose]

QueryCall(op, via, i, out, q) ==
    [Call(op, via, i, out) EXCEPT !.q = q]

SpecialCall(op, via, i, out, opname, P) ==
    [Call(op, via, i, out) EXCEPT
        !.opname = opname, !.pNone = P.isNone, !.vals = P.values,
        !.n = IF opname = "transaction" THEN Len(P.queries) ELSE Len(P.values),
        !.k = IF i # 0 /\ opname = "transaction" /\ inst[i].kind \in Relational
                 /\ inst[i].conn = "open"
              THEN FirstFailure(inst[i], P.queries, 1) ELSE 0]

Init ==
    /\ db = [p \in Proxies |-> 0]
    /\ inst = <<>>
    /\ last = NoCall

(* ------------------------- calls on a variant ------------------------- *)
\* SQLiteDatabase(...), PostgreSQLDatabase(...), ...: __init__
Construct(k) ==
    /\ inst' = Append(inst, NewInst(k))
    /\ last' = Call("__init__", "", Len(inst) + 1, Out(NewInst(k), NoErr, <<>>))
    /\ UNCHANGED db

VarConnect(i) ==
    \E ok \in ConnectOutcomes(inst[i].kind) :
        LET out == VConnect(inst[i], ok) IN
        /\ inst' = [inst EXCEPT ![i] = out.st]
        /\ last' = Call("connect", "", i, out)
        /\ UNCHANGED db

VarQuery(i, q) ==
    \E P \in QueryParams(inst[i].kind), nd \in Drivers(inst[i]) :
        LET out == VQuery(inst[i], q, P, nd) IN
        /\ inst' = [inst EXCEPT ![i] = out.st]
        /\ last' = QueryCall("execute_query", "", i, out, q)
        /\ UNCHANGED db

VarSpecial(i, op) ==
    \E P \in ParamsFor(op), nd \in Drivers(inst[i]) :
        LET out == VSpecial(inst[i], op, P, nd) IN
        /\ inst' = [inst EXCEPT ![i] = out.st]
        /\ last' = SpecialCall("execute_special", "", i, out, op, P)
        /\ UNCHANGED db

VarClose(i) ==
    LET out == VClose(inst[i]) IN
    /\ inst' = [inst EXCEPT ![i] = out.st]
    /\ last' = Call("close", "", i, out)
    /\ UNCHANGED db

(* ------------------------------ DBProxy ------------------------------- *)
\* `self.db.<method>` when self.db is None
NoneAttr == Out(0, E_Attribute, <<>>)

\* `if not self.db`
NoDbNever(d) == FALSE
NoDb(d) == d = 0

\* what connect_to_db does to the variant it replaces: nothing
PreviousClosed(I, old) == IF old = 0 THEN I ELSE [I EXCEPT ![old] = VClose(I[old]).st]
Previous(I, old) == I

\* a connect_to_db that reset self.db before it looked at the name
ConnectToDbClearing(p, name, kwOk) ==
    LET k == ResolveOf[name] IN
    IF k = ""
    THEN /\ last' = [Call("connect_to_db", p, 0, Out(0, E_UnknownType, <<>>))
                        EXCEPT !.name = name]
         /\ db' = [db EXCEPT ![p] = 0]
         /\ UNCHANGED inst
    ELSE IF ~kwOk
    THEN /\ last' = [Call("connect_to_db", p, 0, Out(0, E_Type, <<>>))
                        EXCEPT !.name = name, !.cls = k]
         /\ UNCHANGED <<db, inst>>
    ELSE \E ok \in ConnectOutcomes(k) :
            LET i == Len(inst) + 1
                out == VConnect(NewInst(k), ok)
            IN  /\ db' = [db EXCEPT ![p] = i]
                /\ inst' = Append(inst, out.st)
                /\ last' = [Call("connect_to_db", p, i, out)
                               EXCEPT !.name = name, !.cls = k]

\* a connect_to_db that assigned self.db after connect() had returned
ConnectToDbAssignAfter(p, name, kwOk) ==
    LET k == ResolveOf[name] IN
    IF k = ""
    THEN /\ last' = [Call("connect_to_db", p, 0, Out(0, E_UnknownType, <<>>))
                        EXCEPT !.name = name]
         /\ UNCHANGED <<db, inst>>
    ELSE IF ~kwOk
    THEN /\ last' = [Call("connect_to_db", p, 0, Out(0, E_Type, <<>>))
                        EXCEPT !.name = name, !.cls = k]
         /\ UNCHANGED <<db, inst>>
    ELSE \E ok \in ConnectOutcomes(k) :
            LET i == Len(inst) + 1
                out == VConnect(NewInst(k), ok)
            IN  /\ db' = IF ok THEN [db EXCEPT ![p] = i] ELSE db
                /\ inst' = Append(inst, out.st)
                /\ last' = [Call("connect_to_db", p, i, out)
                               EXCEPT !.name = name, !.cls = k]

\* a connect_to_db that kept the backend in an attribute of the class
ConnectToDbShared(p, name, kwOk) ==
    LET k == ResolveOf[name] IN
    IF k = ""
    THEN /\ last' = [Call("connect_to_db", p, 0, Out(0, E_UnknownType, <<>>))
                        EXCEPT !.name = name]
         /\ UNCHANGED <<db, inst>>
    ELSE IF ~kwOk
    THEN /\ last' = [Call("connect_to_db", p, 0, Out(0, E_Type, <<>>))
                        EXCEPT !.name = name, !.cls = k]
         /\ UNCHANGED <<db, inst>>
    ELSE \E ok \in ConnectOutcomes(k) :
            LET i == Len(inst) + 1
                out == VConnect(NewInst(k), ok)
            IN  /\ db' = [r \in Proxies |-> i]
                /\ inst' = Append(inst, out.st)
                /\ last' = [Call("connect_to_db", p, i, out)
                               EXCEPT !.name = name, !.cls = k]

\* DBProxy.connect_to_db(db_type, **kwargs); kwOk: the keyword arguments are
\* those the variant's __init__ takes
ConnectToDb(p, name, kwOk) ==
    LET k == ResolveOf[name] IN
    IF k = ""
    THEN /\ last' = [Call("connect_to_db", p, 0, Out(0, E_UnknownType, <<>>))
                        EXCEPT !.name = name]
         /\ UNCHANGED <<db, inst>>
    ELSE IF ~kwOk
    THEN /\ last' = [Call("connect_to_db", p, 0, Out(0, E_Type, <<>>))
                        EXCEPT !.name = name, !.cls = k]
         /\ UNCHANGED <<db, inst>>
    ELSE \E ok \in ConnectOutcomes(k) :
            LET i == Len(inst) + 1
                out == VConnect(NewInst(k), ok)
            IN  /\ db' = [db EXCEPT ![p] = i]
                /\ inst' = Append(Previous(inst, db[p]), out.st)
                /\ last' = [Call("connect_to_db", p, i, out)
                               EXCEPT !.name = name, !.cls = k]

\* an execute that closed the backend when the variant raised
ExecuteClosingOnError(p, q) ==
    IF NoDb(db[p])
    THEN /\ last' = QueryCall("execute", p, 0, Out(0, E_NoDatabase, <<>>), q)
         /\ UNCHANGED <<db, inst>>
    ELSE \E P \in QueryParams(inst[db[p]].kind), nd \in Drivers(inst[db[p]]) :
            LET out == VQuery(inst[db[p]], q, P, nd) IN
            /\ inst' = [inst EXCEPT ![db[p]] =
                           IF out.err = NoErr THEN out.st ELSE VClose(out.st).st]
            /\ last' = QueryCall("execute", p, db[p], out, q)
            /\ UNCHANGED db

\* DBProxy.execute
Execute(p, q) ==
    IF NoDb(db[p])
    THEN /\ last' = QueryCall("execute", p, 0, Out(0, E_NoDatabase, <<>>), q)
         /\ UNCHANGED <<db, inst>>
    ELSE IF db[p] = 0
    THEN /\ last' = QueryCall("execute", p, 0, NoneAttr, q)
         /\ UNCHANGED <<db, inst>>
    ELSE \E P \in QueryParams(inst[db[p]].kind), nd \in Drivers(inst[db[p]]) :
            LET out == VQuery(inst[db[p]], q, P, nd) IN
            /\ inst' = [inst EXCEPT ![db[p]] = out.st]
            /\ last' = QueryCall("execute", p, db[p], out, q)
            /\ UNCHANGED db

\* DBProxy.execute_special
ExecuteSpecial(p, op) ==
    IF NoDb(db[p])
    THEN \E P \in ParamsFor(op) :
         /\ last' = SpecialCall("execute_special", p, 0,
                                Out(0, E_NoDatabase, <<>>), op, P)
         /\ UNCHANGED <<db, inst>>
    ELSE IF db[p] = 0
    THEN \E P \in ParamsFor(op) :
         /\ last' = SpecialCall("execute_special", p, 0, NoneAttr, op, P)
         /\ UNCHANGED <<db, inst>>
    ELSE \E P \in ParamsFor(op), nd \in Drivers(inst[db[p]]) :
            LET out == VSpecial(inst[db[p]], op, P, nd) IN
            /\ inst' = [inst EXCEPT ![db[p]] = out.st]
            /\ last' = SpecialCall("execute_special", p, db[p], out, op, P)
            /\ UNCHANGED db

\* a close that dropped the backend: `self.db.close(); self.db = None`
ProxyCloseClearing(p) ==
    IF NoDb(db[p])
    THEN /\ last' = Call("close", p, 0, Out(0, NoErr, <<>>))
         /\ UNCHANGED <<db, inst>>
    ELSE LET out == VClose(inst[db[p]]) IN
         /\ inst' = [inst EXCEPT ![db[p]] = out.st]
         /\ last' = Call("close", p, db[p], out)
         /\ db' = [db EXCEPT ![p] = 0]

\* DBProxy.close
ProxyClose(p) ==
    IF NoDb(db[p])
    THEN /\ last' = Call("close", p, 0, Out(0, NoErr, <<>>))
         /\ UNCHANGED <<db, inst>>
    ELSE IF db[p] = 0
    THEN /\ last' = Call("close", p, 0, NoneAttr)
         /\ UNCHANGED <<db, inst>>
    ELSE LET out == VClose(inst[db[p]]) IN
         /\ inst' = [inst EXCEPT ![db[p]] = out.st]
         /\ last' = Call("close", p, db[p], out)
         /\ UNCHANGED db

(* --------------------------- specifications --------------------------- *)
\* the stores hold at most MaxRows rows
Fits == \A i \in DOMAIN inst : Len(inst[i].work) <= MaxRows

\* Spec: the proxies and the variants they connect to.  The callers make at
\* most MaxInst connections, spell the type names in lower case, and make
\* requests that read.
ReadQueries  == {Q_select, Q_bogus, T_find, T_get}
ReadSpecials == {"aggregate", "publish", "vacuum"}
PlainNames   == {Ident(k) : k \in Kinds} \cup {<<"o","r","a","c","l","e">>}

Next ==
    \/ \E p \in Proxies, name \in PlainNames, kwOk \in BOOLEAN :
          ConnectToDb(p, name, kwOk) /\ Len(inst') <= MaxInst
    \/ \E p \in Proxies, q \in ReadQueries : Execute(p, q)
    \/ \E p \in Proxies, op \in ReadSpecials : ExecuteSpecial(p, op)
    \/ \E p \in Proxies : ProxyClose(p)

Spec == Init /\ [][Next]_vars

\* SpecStore: one proxy and the one variant it connects to, with every
\* spelling of the type name and every request
NextStore ==
    \/ \E name \in TypeNames, kwOk \in BOOLEAN :
          ConnectToDb("A", name, kwOk) /\ Len(inst') <= 1
    \/ \E q \in Queries : Execute("A", q) /\ Fits'
    \/ \E op \in SpecialOps : ExecuteSpecial("A", op) /\ Fits'
    \/ ProxyClose("A")

SpecStore == Init /\ [][NextStore]_vars

\* SpecVariant: one variant, constructed and called without a proxy
NextVariant ==
    \/ \E k \in Kinds : inst = <<>> /\ Construct(k)
    \/ \E i \in DOMAIN inst : VarConnect(i)
    \/ \E i \in DOMAIN inst, q \in Queries : VarQuery(i, q) /\ Fits'
    \/ \E i \in DOMAIN inst, op \in SpecialOps : VarSpecial(i, op) /\ Fits'
    \/ \E i \in DOMAIN inst : VarClose(i)

SpecVariant == Init /\ [][NextVariant]_vars

(* ------------------------------- claims ------------------------------- *)
(* The error kinds of the specification, as the code raises them:          *)
(*   NotConnectedError          Exception("No database connected")         *)
(*   UnsupportedOperationError  ValueError("Unsupported ... operation")    *)
(*   UnknownBackendError        ValueError("Unsupported database type")    *)
(*   ExecutionError             an error the driver raises                 *)
(* The states of a variant: Unconnected is conn = "None", Connected is     *)
(* conn = "open", Closed is conn = "closed".                               *)
Target == last.target
IsSpecial(c) == c.op = "execute_special"
IsQuery(c) == c.op \in {"execute", "execute_query"}

\* C1: on a Connected relational variant, a transaction whose statement k
\* (k > 1) is rejected returns an error and leaves no effect of the
\* statements before it: the session sees, and the store holds, what they
\* did before the call.
C1_TransactionRolledBack ==
    [][\A i \in DOMAIN inst :
         (IsSpecial(last') /\ last'.target = i /\ last'.opname = "transaction"
            /\ last'.k > 1)
         => /\ last'.err # NoErr
            /\ inst'[i].work = inst[i].work
            /\ inst'[i].committed = inst[i].committed]_vars

\* C2: execute and execute_special on a proxy that has no active backend
\* fail with "No database connected", and are forwarded to no variant.
C2_NoBackendNotConnected ==
    \A p \in Proxies :
        ((IsQuery(last) \/ IsSpecial(last)) /\ last.via = p /\ db[p] = 0)
        => last.err = E_NoDatabase /\ last.target = 0

C2_Witness ==
    \E p, r \in Proxies :
        /\ IsSpecial(last) /\ last.via = p /\ db[p] = 0
        /\ last.err = E_NoDatabase
        /\ db[r] # 0 /\ inst[db[r]].conn = "open"

\* C3: execute_query and execute_special of a variant succeed only when it
\* is Connected, and on an Unconnected or Closed variant they fail with the
\* not-connected error and no other.
C3_NotConnectedWhenNotOpen ==
    \A i \in DOMAIN inst :
        ((IsQuery(last) \/ IsSpecial(last)) /\ last.target = i)
        => /\ last.err = NoErr => inst[i].conn = "open"
           /\ inst[i].conn # "open" => last.err = E_NoDatabase

\* C4: execute and execute_special on a proxy whose backend was connected
\* and then closed by DBProxy.close() fail with the not-connected error.
C4_NotConnectedAfterClose ==
    \A p \in Proxies :
        ((IsQuery(last) \/ IsSpecial(last)) /\ last.via = p /\ db[p] # 0
            /\ inst[db[p]].conn = "closed")
        => last.err = E_NoDatabase

\* C5: close() of a variant that was never connected, or is closed already,
\* raises nothing and does not call the handle's close().
C5_CloseIdempotent ==
    [][\A i \in DOMAIN inst :
         (last'.op = "close" /\ last'.target = i /\ inst[i].conn # "open")
         => last'.err = NoErr /\ ~last'.hclose]_vars

\* C6: close() leaves a variant Closed whatever state it was in, and a
\* Closed variant stays Closed under every later call.
C6_ClosedIsTerminal ==
    [][\A i \in DOMAIN inst :
         /\ (last'.op = "close" /\ last'.target = i) => inst'[i].conn = "closed"
         /\ inst[i].conn = "closed" => inst'[i].conn = "closed"]_vars

\* C7: a proxy refers to no variant or to one; a connect_to_db that returns
\* makes the variant it constructed the proxy's backend, and leaves the
\* variant that was the backend before untouched (a Connected one stays
\* Connected) and no longer the backend of the proxy.
C7_ReplacesWithoutClosing ==
    [][\A p \in Proxies :
         /\ db'[p] \in 0..Len(inst')
         /\ (last'.op = "connect_to_db" /\ last'.via = p /\ last'.err = NoErr)
            => /\ Len(inst') = Len(inst) + 1
               /\ db'[p] = Len(inst')
               /\ last'.target = db'[p]
               /\ inst'[db'[p]].conn = "open"
               /\ db[p] # 0 => db'[p] # db[p] /\ inst'[db[p]] = inst[db[p]]]_vars

C7_Witness ==
    /\ last.op = "connect_to_db" /\ last.err = NoErr /\ last.target = 2
    /\ db[last.via] = 2
    /\ \A r \in Proxies : db[r] # 1
    /\ inst[1].conn = "open"

SameLetter(a, b) == a = b \/ UpperChar[a] = b \/ a = UpperChar[b]
EqIgnoreCase(a, b) ==
    Len(a) = Len(b) /\ \A i \in DOMAIN a : SameLetter(a[i], b[i])

\* C8: connect_to_db constructs the variant whose identifier equals the
\* type name letter by letter, upper or lower case alike, and fails with
\* "Unsupported database type" for a name that equals none of the five.
C8_CaseInsensitiveResolve ==
    last.op = "connect_to_db" =>
        /\ \A k \in Kinds :
              EqIgnoreCase(last.name, Ident(k))
              => /\ last.cls = k
                 /\ last.err # E_UnknownType
                 /\ Target # 0 => inst[Target].kind = k
        /\ (~\E k \in Kinds : EqIgnoreCase(last.name, Ident(k)))
              => last.err = E_UnknownType /\ Target = 0 /\ last.cls = ""

C8_Witness ==
    /\ last.op = "connect_to_db"
    /\ last.name = Mix(S_postgresql, "odd")
    /\ Target # 0 /\ inst[Target].kind = "postgresql" /\ db["A"] = Target

\* C9: on a Connected relational variant, batch_insert with an empty values
\* sequence fails with an execution error of the driver.
C9_EmptyBatchExecutionError ==
    \A i \in DOMAIN inst :
        (IsSpecial(last) /\ Target = i /\ last.opname = "batch_insert"
            /\ ~last.pNone /\ last.n = 0
            /\ inst[i].kind \in Relational /\ inst[i].conn = "open")
        => last.err = E_Driver

Recognized(k) ==
    IF k \in Relational THEN {"transaction", "batch_insert"}
    ELSE IF k = "mongodb" THEN {"aggregate", "batch_insert"}
    ELSE {"subscribe", "publish"}

\* C10: on a Connected variant, execute_special with a name that is not one
\* of the variant's operations fails with "Unsupported ... operation" and
\* leaves the variant and its store as they were.
C10_UnknownOperationUnsupported ==
    [][\A i \in DOMAIN inst :
         (IsSpecial(last') /\ last'.target = i /\ inst[i].conn = "open"
            /\ last'.opname \notin Recognized(inst[i].kind))
         => last'.err = E_Unsupported /\ inst'[i] = inst[i]]_vars

C10_Witness ==
    /\ IsSpecial(last) /\ Target # 0 /\ last.opname = "aggregate"
    /\ inst[Target].kind = "mysql" /\ inst[Target].conn = "open"
    /\ inst[Target].work # inst[Target].committed
    /\ last.err = E_Unsupported

\* C11: a successful execute_query / execute_special returns a list.  A
\* single value comes as a list of one element: the confirmation and the
\* row count of the relational operations, the id / count of a MongoDB
\* insert, update or delete, the "OK", fetched value (None for an unset
\* key) or count of Redis, the Redis confirmation and receiver count.  A
\* MongoDB batch_insert returns one id per document.  A SQL statement
\* without a result set returns the empty list, a SELECT one item per row.
C11_ResultIsSequence ==
    \A i \in DOMAIN inst :
        ((IsQuery(last) \/ IsSpecial(last)) /\ Target = i /\ last.err = NoErr)
        => LET k == inst[i].kind IN
           /\ (IsSpecial(last) /\ k # "mongodb") => Len(last.ret) = 1
           /\ (IsSpecial(last) /\ k = "mongodb" /\ last.opname = "batch_insert")
                 => Len(last.ret) = last.n
           /\ (IsQuery(last) /\ k \in Relational /\ SqlOf[last.q].k = "insert")
                 => last.ret = <<>>
           /\ (IsQuery(last) /\ k \in Relational /\ SqlOf[last.q].k = "select")
                 => last.ret = inst[i].work
           /\ (IsQuery(last) /\ k = "redis") => Len(last.ret) = 1
           /\ (IsQuery(last) /\ k = "mongodb" /\ ~StartsWith(last.q, T_find))
                 => Len(last.ret) = 1

C11_Witness ==
    /\ IsQuery(last) /\ Target # 0 /\ last.err = NoErr
    /\ inst[Target].kind = "redis" /\ StartsWith(last.q, T_get)
    /\ inst[Target].work = <<>> /\ Len(last.ret) = 1

\* C12: a relational variant has no open cursor between calls: the cursor
\* execute_query / execute_special opened is closed when the call returns
\* or raises (rejected statement, refused commit, unsupported operation,
\* empty batch, params of None).
C12_CursorsReleased ==
    \A i \in DOMAIN inst : inst[i].cursors = 0

C12_Witness ==
    /\ IsQuery(last) /\ Target # 0 /\ last.err = E_Driver
    /\ SqlOf[last.q].k = "insert"
    /\ inst[Target].kind = "sqlite" /\ inst[Target].conn = "open"
    /\ inst[Target].work # inst[Target].committed
    /\ inst[Target].cursors = 0

\* C13: when execute_query of a relational variant returns, the session
\* holds no uncommitted change: the store holds what the session sees, the
\* effect of the statement included.
C13_QueryCommitted ==
    \A i \in DOMAIN inst :
        (IsQuery(last) /\ Target = i /\ last.err = NoErr
            /\ inst[i].kind \in Relational)
        => /\ inst[i].committed = inst[i].work
           /\ ~inst[i].aborted
           /\ SqlOf[last.q].k = "insert"
                => /\ inst[i].committed # <<>>
                   /\ inst[i].committed[Len(inst[i].committed)] = SqlOf[last.q].v

C13_Witness ==
    /\ IsQuery(last) /\ Target # 0 /\ last.err = NoErr
    /\ inst[Target].kind = "postgresql"
    /\ SqlOf[last.q].k = "insert"
    /\ Len(inst[Target].committed) = 2

\* C14: when execute or execute_special of a proxy whose backend is
\* Connected raises (driver error, unsupported operation, empty batch,
\* params of None), the proxy still refers to the same variant, no variant
\* was constructed, the variant is still Connected, and the request was
\* sent once: the session holds at most the rows of one submission more.
C14_FailureLeavesBackend ==
    [][\A p \in Proxies :
         ((IsQuery(last') \/ IsSpecial(last')) /\ last'.via = p
            /\ last'.err # NoErr /\ db[p] # 0 /\ inst[db[p]].conn = "open")
         => /\ db'[p] = db[p]
            /\ last'.target = db[p]
            /\ Len(inst') = Len(inst)
            /\ inst'[db[p]].conn = "open"
            /\ Len(inst'[db[p]].work)
                  <= Len(inst[db[p]].work) + (IF IsQuery(last') THEN 1 ELSE last'.n)]_vars

C14_Witness ==
    /\ IsSpecial(last) /\ last.via = "A" /\ last.opname = "batch_insert"
    /\ ~last.pNone /\ last.n = 0 /\ last.err # NoErr
    /\ db["A"] = Target /\ Target # 0
    /\ inst[Target].kind = "postgresql" /\ inst[Target].conn = "open"
    /\ inst[Target].committed # <<>>

\* C15: two proxies share nothing: a call on one proxy changes neither the
\* variant the other refers to nor whether that variant is Unconnected,
\* Connected or Closed, and no variant is the backend of both.
C15_ProxiesShareNothing ==
    [][\A p, r \in Proxies :
         p # r =>
            /\ db'[p] # 0 => db'[p] # db'[r]
            /\ last'.via = p
                 => /\ db'[r] = db[r]
                    /\ db[r] # 0 => inst'[db[r]].conn = inst[db[r]].conn]_vars

C15_Witness ==
    /\ last.op = "close" /\ last.via = "A" /\ last.hclose
    /\ db["A"] # 0 /\ db["B"] # 0 /\ db["A"] # db["B"]
    /\ inst[db["A"]].conn = "closed"
    /\ inst[db["B"]].conn = "open"
    /\ inst[db["A"]].kind = inst[db["B"]].kind

\* C16: on a Connected relational variant a batch_insert of n >= 1 rows
\* that returns, returns [n] and leaves the table with the rows it had
\* followed by the n rows in the order given; a SELECT that returns,
\* returns the rows of the table in that order, so the SELECT following
\* the batch_insert ends with the n rows.
C16_BatchInsertThenSelect ==
    [][\A i \in DOMAIN inst :
         (inst[i].kind \in Relational /\ last'.target = i /\ last'.err = NoErr)
         => /\ (IsSpecial(last') /\ last'.opname = "batch_insert")
                 => /\ last'.n >= 1 /\ last'.n = Len(last'.vals)
                    /\ last'.ret = <<last'.n>>
                    /\ inst'[i].work = inst[i].work \o last'.vals
                    /\ inst'[i].committed = inst'[i].work
            /\ (IsQuery(last') /\ SqlOf[last'.q].k = "select")
                 => /\ last'.ret = inst[i].work
                    /\ (IsSpecial(last) /\ last.opname = "batch_insert"
                           /\ last.err = NoErr /\ last.target = i)
                         => /\ Len(last'.ret) >= last.n
                            /\ SubSeq(last'.ret, Len(last'.ret) - last.n + 1,
                                      Len(last'.ret)) = last.vals]_vars

C16_Witness ==
    /\ IsSpecial(last) /\ last.opname = "batch_insert" /\ last.err = NoErr
    /\ Target # 0 /\ inst[Target].kind = "sqlite"
    /\ last.vals = <<2, 1>> /\ last.ret = <<2>>
    /\ inst[Target].committed = <<2, 1>>

\* C17: connect_to_db assigns self.db before it calls connect().  When the
\* driver's connect raises, the proxy refers to the variant just
\* constructed, which is Unconnected; the variant it referred to before is
\* untouched and no longer its backend; and the execute / execute_special
\* that follows on the proxy is not answered "No database connected": it
\* is forwarded to the Unconnected variant and fails there.
C17_FailedConnectLeavesNewVariant ==
    [][\A p \in Proxies :
         /\ (last'.op = "connect_to_db" /\ last'.via = p /\ last'.err = E_Driver)
              => /\ Len(inst') = Len(inst) + 1
                 /\ db'[p] = Len(inst') /\ last'.target = db'[p]
                 /\ inst'[db'[p]].conn = "None"
                 /\ inst'[db'[p]].kind = last'.cls
                 /\ db[p] # 0 => db'[p] # db[p] /\ inst'[db[p]] = inst[db[p]]
         /\ (last.op = "connect_to_db" /\ last.via = p /\ last.err = E_Driver
                /\ (IsQuery(last') \/ IsSpecial(last')) /\ last'.via = p)
              => /\ last'.target = last.target
                 /\ last'.err \notin {NoErr, E_NoDatabase}
                 /\ inst'[last.target].conn = "None"]_vars

C17_Witness ==
    /\ last.op = "connect_to_db" /\ last.err = E_Driver /\ Target = 2
    /\ db[last.via] = 2 /\ inst[2].conn = "None"
    /\ \A r \in Proxies : db[r] # 1
    /\ inst[1].conn = "open"

\* C18: connect_to_db with a name that is none of the five identifiers,
\* whatever the case of its letters, raises "Unsupported database type"
\* and changes nothing: the proxy refers to what it referred to before
\* (nothing, or the same variant) and no variant is constructed or touched.
C18_UnknownNameChangesNothing ==
    [][(last'.op = "connect_to_db"
          /\ ~\E k \in Kinds : EqIgnoreCase(last'.name, Ident(k)))
       => /\ last'.err = E_UnknownType
          /\ db' = db
          /\ inst' = inst]_vars

C18_Witness ==
    /\ last.op = "connect_to_db" /\ last.err = E_UnknownType
    /\ last.name = <<"s","q","l","i","t","e","3">>
    /\ db["A"] # 0 /\ inst[db["A"]].conn = "open"
    /\ inst[db["A"]].kind = "sqlite"

\* C19 as stated: once a connect_to_db of a proxy has been given a name
\* that is one of the five identifiers, the proxy refers to a variant in
\* every later state; DBProxy.close() closes the variant and keeps it as
\* the backend, so that a second close() goes to the same variant.
C19_NeverClearedOnceResolved ==
    [][\A p \in Proxies :
         /\ (last'.op = "connect_to_db" /\ last'.via = p
                /\ \E k \in Kinds : EqIgnoreCase(last'.name, Ident(k)))
              => db'[p] # 0
         /\ db[p] # 0 => db'[p] # 0
         /\ (last'.op = "close" /\ last'.via = p /\ db[p] # 0)
              => /\ db'[p] = db[p] /\ last'.target = db[p]
                 /\ inst'[db[p]].conn # "open"]_vars

\* C19, amended: once a connect_to_db of a proxy has constructed a variant
\* (the name is one of the five identifiers and the variant's __init__
\* took the keyword arguments), the proxy refers to a variant in every
\* later state; DBProxy.close() closes the variant and keeps it as the
\* backend, so that a second close() goes to the same variant.
C19_NeverClearedOnceConstructed ==
    [][\A p \in Proxies :
         /\ (last'.op = "connect_to_db" /\ last'.via = p /\ last'.target # 0)
              => db'[p] = last'.target
         /\ (last'.op = "connect_to_db" /\ last'.via = p
                /\ (\E k \in Kinds : EqIgnoreCase(last'.name, Ident(k)))
                /\ last'.err # E_Type)
              => last'.target # 0
         /\ db[p] # 0 => db'[p] # 0
         /\ (last'.op = "close" /\ last'.via = p /\ db[p] # 0)
              => /\ db'[p] = db[p] /\ last'.target = db[p]
                 /\ inst'[db[p]].conn # "open"
         /\ (last.op = "close" /\ last.via = p /\ last.target # 0
                /\ last'.op = "close" /\ last'.via = p)
              => last'.target = last.target]_vars

C19_Witness ==
    /\ last.op = "close" /\ last.via = "B" /\ last.err = E_Driver
    /\ db["B"] = Target /\ Target # 0
    /\ inst[Target].kind = "mysql" /\ inst[Target].conn = "closed"

====
